---- MODULE Spec2Model ----
(***************************************************************************)
(* A model of backend/app.py, the heatwave-risk inference service: the     *)
(* in-memory sensor record latest_sensor_data, the five request handlers   *)
(* and the wall clock the liveness check reads.                            *)
(*                                                                         *)
(* Spec     handles one request at a time: each handler is one action.     *)
(* ConcSpec runs receive_sensor_data and get_sensor_data on worker threads *)
(*          one statement at a time (the server handles requests on        *)
(*          threads and the handlers take no lock).                        *)
(***************************************************************************)
EXTENDS Integers, Sequences, FiniteSets, TLC

VARIABLES
    model,               \* app.py:30-35  the unpickled classifier, or None
    latest_sensor_data,  \* app.py:40-44  the process-wide sensor record
    now,                 \* the wall clock read by datetime.now(), in seconds
    req,                 \* the request handled last (with what the outside world answered it)
    resp,                \* the response it got: [code, body]
    effects,             \* what handling it did: forecast fetched, classifier called, the vector it got
    last_ingest,         \* history: the last accepted ingest  [T, at, id]
    pc,                  \* ConcSpec: each worker thread's position
    local,               \* ConcSpec: each worker thread's local variables
    written_by,          \* ConcSpec history: the ingest that wrote each field last
    n_ingests            \* ConcSpec history: ingests started so far

seqVars == <<model, latest_sensor_data, now, req, resp, effects, last_ingest>>
concVars == <<pc, local, written_by, n_ingests>>
vars == <<model, latest_sensor_data, now, req, resp, effects, last_ingest,
          pc, local, written_by, n_ingests>>

----------------------------------------------------------------------------
(* Bounds *)

MaxTime == 12        \* the clock stops advancing here
MaxIngests == 2      \* ConcSpec: ingest requests started in one run
NumThreads == 2      \* ConcSpec: worker threads

----------------------------------------------------------------------------
(* Python and JSON values.  Every value is a record [k, v]: k is its type.  *)

None == [k |-> "none", v |-> 0]
Num(n) == [k |-> "num", v |-> n]          \* a JSON number
NumStr(n) == [k |-> "numstr", v |-> n]    \* a JSON string holding the digits of n
BadStr == [k |-> "badstr", v |-> 0]       \* a JSON string that is no number, e.g. "hot"
Bool(b) == [k |-> "bool", v |-> IF b THEN 1 ELSE 0]
Float(n) == [k |-> "float", v |-> n]      \* a Python float
Iso(t) == [k |-> "iso", v |-> t]          \* an ISO-8601 string naming the instant t

\* Python truthiness: None, False, 0 and 0.0 are falsy.
Truthy(x) ==
    CASE x.k = "none" -> FALSE
      [] x.k \in {"bool", "num", "float"} -> x.v # 0
      [] OTHER -> TRUE

\* float(x) raises ValueError on a string that is no number (TypeError on None).
float_raises(x) == x.k \in {"badstr", "none", "iso"}
float(x) == Float(x.v)

\* datetime.isoformat() and datetime.fromisoformat()
isoformat(t) == Iso(t)
fromisoformat(s) == s.v

\* dict.get(key, default) and dict[key] on a JSON object (a function on its keys)
DictGet(d, key, default) == IF key \in DOMAIN d THEN d[key] ELSE default
HasKey(d, key) == key \in DOMAIN d

EmptyDict == [x \in {} |-> None]

\* request.get_json(): the body is a JSON object, or it is not (get_json raises
\* or returns None, and the handler's next use of it raises).
NotJson == [json |-> FALSE, data |-> EmptyDict]
Json(d) == [json |-> TRUE, data |-> d]

----------------------------------------------------------------------------
(* Responses *)

Msg(text) == <<"message", text>>            \* a fixed error text
Exc(type, arg) == <<type, arg>>             \* str(e) of a caught exception
ErrorBody(e) == [error |-> e]
NoBody == <<>>                              \* the empty body of a 204

\* No request is being answered: the server waits for the next one.
NoRequest == [op |-> "none", method |-> "GET", body |-> NotJson, at |-> 0]
NoResponse == [code |-> 0, body |-> NoBody]
Idle == req.op = "none"

NoEffects == [forecast |-> FALSE, meteo |-> None, classify |-> FALSE, features |-> <<>>]
NoIngest == [T |-> None, at |-> 0]
Loaded == [k |-> "model", v |-> 0]

----------------------------------------------------------------------------
(* Sensor State Tracker: app.py:40-94 *)

STALE_SECONDS == 10

IsStaleOffByOne(time_diff) == time_diff >= STALE_SECONDS
\* app.py:91
IsStale(time_diff) == time_diff > STALE_SECONDS

MarkStaleDropsReading(d) == [d EXCEPT !.status = "disconnected", !.temperature = None]
\* app.py:92
MarkStale(d) == [d EXCEPT !.status = "disconnected"]

IngestTemperatureDefaultsToZero(data) == DictGet(data, "temperature", Num(0))
\* app.py:63
IngestTemperature(data) == DictGet(data, "temperature", None)

\* app.py:68-70, the three assignments of an accepted ingest
Store(d, temperature, t) ==
    [d EXCEPT !.temperature = float(temperature),
              !.timestamp = isoformat(t),
              !.status = "connected"]

\* app.py:87-92, the record after the staleness check made at time t
Refresh(d, t) ==
    IF Truthy(d.timestamp)
    THEN LET last_update == fromisoformat(d.timestamp)
             time_diff == t - last_update
         IN  IF IsStale(time_diff) THEN MarkStale(d) ELSE d
    ELSE d

\* app.py:46-54
health_check ==
    /\ Idle
    /\ req' = [op |-> "health", method |-> "GET", body |-> NotJson, at |-> now]
    /\ resp' = [code |-> 200,
                body |-> [status |-> "running",
                          model_loaded |-> (model # None),
                          message |-> "Heatwave Risk Prediction API",
                          sensor_status |-> latest_sensor_data.status,
                          version |-> "1.0.0"]]
    /\ effects' = NoEffects
    /\ UNCHANGED <<model, latest_sensor_data, now, last_ingest>>
    /\ UNCHANGED concVars

\* app.py:58-68, before anything is stored: the response that ends the request
\* early, or none (float() is evaluated before the first assignment)
IngestCheck(method, body) ==
    IF method = "OPTIONS"
    THEN [ok |-> FALSE, resp |-> [code |-> 204, body |-> NoBody]]
    ELSE IF ~body.json
    THEN [ok |-> FALSE,
          resp |-> [code |-> 500, body |-> ErrorBody(Exc("Exception", "no JSON object"))]]
    ELSE LET temperature == IngestTemperature(body.data)
         IN  IF temperature = None
             THEN [ok |-> FALSE,
                   resp |-> [code |-> 400, body |-> ErrorBody(Msg("No temperature data"))]]
             ELSE IF float_raises(temperature)
             THEN [ok |-> FALSE,
                   resp |-> [code |-> 500, body |-> ErrorBody(Exc("ValueError", "float"))]]
             ELSE [ok |-> TRUE, resp |-> NoResponse]

\* app.py:74-78
IngestAccepted(temperature, d) ==
    [code |-> 200,
     body |-> [status |-> "success", temperature |-> temperature, received_at |-> d.timestamp]]

\* app.py:56-82
receive_sensor_data(method, body) ==
    /\ Idle
    /\ req' = [op |-> "ingest", method |-> method, body |-> body, at |-> now]
    /\ effects' = NoEffects
    /\ IF ~IngestCheck(method, body).ok
       THEN /\ resp' = IngestCheck(method, body).resp
            /\ UNCHANGED <<latest_sensor_data, last_ingest>>
       ELSE LET temperature == IngestTemperature(body.data)
            IN  /\ latest_sensor_data' = Store(latest_sensor_data, temperature, now)
                /\ last_ingest' = [T |-> temperature, at |-> now]
                /\ resp' = IngestAccepted(temperature, latest_sensor_data')
    /\ UNCHANGED <<model, now>>
    /\ UNCHANGED concVars

\* app.py:84-94
get_sensor_data ==
    /\ Idle
    /\ req' = [op |-> "read", method |-> "GET", body |-> NotJson, at |-> now]
    /\ effects' = NoEffects
    /\ latest_sensor_data' = Refresh(latest_sensor_data, now)
    /\ resp' = [code |-> 200, body |-> latest_sensor_data']
    /\ UNCHANGED <<model, now, last_ingest>>
    /\ UNCHANGED concVars

----------------------------------------------------------------------------
(* Forecast Client, Feature Assembler, Risk Classifier, Recommendation     *)
(* Mapper: app.py:96-229                                                   *)

\* app.py:118 and app.py:184-188, the five feature fields in the order of the vector
FeatureFields ==
    <<"temperature_2m_max", "temperature_2m_min", "wind_speed_10m_max",
      "wind_gusts_10m_max", "precipitation_sum">>

FieldSet == {FeatureFields[i] : i \in 1..Len(FeatureFields)}

\* app.py:37
RISK_LABELS == [c \in {0, 1, 2} |-> CASE c = 0 -> "Low" [] c = 1 -> "Medium" [] c = 2 -> "High"]

\* app.py:208-229
get_recommendations(risk_level) ==
    CASE risk_level = "Low" ->
           <<"Conditions are safe for outdoor activities",
             "Stay hydrated with regular water intake",
             "Normal precautions are sufficient">>
      [] risk_level = "Medium" ->
           <<"Stay hydrated - drink water every 30-45 minutes",
             "Limit outdoor activities during peak afternoon hours",
             "Wear light, loose-fitting clothing",
             "Take frequent breaks in shaded areas">>
      [] risk_level = "High" ->
           <<"Stay indoors as much as possible",
             "Drink water every 20-30 minutes",
             "Avoid ALL outdoor activities between 11 AM - 5 PM",
             "Seek air-conditioned environments",
             "Know heatstroke symptoms: confusion, dizziness, nausea">>
      [] OTHER -> <<>>

ModelMissingIgnored == FALSE
\* app.py:101 and app.py:178
ModelMissing == model = None

\* app.py:110
CoordsMissing(latitude, longitude) == ~Truthy(latitude) \/ ~Truthy(longitude)

UseSensorValueOnlyIfLive(use_sensor, d) ==
    Truthy(use_sensor) /\ d.temperature # None /\ d.status = "connected"
\* app.py:129
UseSensorValue(use_sensor, d) == Truthy(use_sensor) /\ d.temperature # None

\* daily[field][0]: KeyError when the field is missing, IndexError when its list is empty
ItemRaises(daily, field) == ~HasKey(daily, field) \/ Len(daily[field]) = 0
ItemError(daily, field) ==
    IF ~HasKey(daily, field) THEN Exc("KeyError", field) ELSE Exc("IndexError", field)
Item0(daily, field) == daily[field][1]

\* the first of the fields (in the order the code reads them) whose read raises, or 0
RECURSIVE FirstRaising(_, _, _)
FirstRaising(daily, fields, i) ==
    IF i > Len(fields) THEN 0
    ELSE IF ItemRaises(daily, fields[i]) THEN i
    ELSE FirstRaising(daily, fields, i + 1)

FeaturesMinMaxSwapped(temp_max, daily) ==
    <<Item0(daily, "temperature_2m_min"),
      temp_max,
      Item0(daily, "wind_speed_10m_max"),
      Item0(daily, "wind_gusts_10m_max"),
      Item0(daily, "precipitation_sum")>>
\* app.py:137-143
Features(temp_max, daily) ==
    <<temp_max,
      Item0(daily, "temperature_2m_min"),
      Item0(daily, "wind_speed_10m_max"),
      Item0(daily, "wind_gusts_10m_max"),
      Item0(daily, "precipitation_sum")>>

\* app.py:183-189
DirectFeatures(data) ==
    <<data["temperature_2m_max"], data["temperature_2m_min"], data["wind_speed_10m_max"],
      data["wind_gusts_10m_max"], data["precipitation_sum"]>>

\* app.py:145-146 and app.py:191-192: model.predict and model.predict_proba.  The
\* classifier is opaque: clf is what it answers, a class and a distribution (in
\* percent), or an exception.  With no model loaded the call itself raises.
ClassifyRaises(clf) == model = None \/ clf.raises

\* app.py:149-155 and app.py:195-202
PredictionFields(clf) ==
    [risk |-> RISK_LABELS[clf.prediction],
     risk_code |-> clf.prediction,
     confidence |-> [low |-> clf.probabilities[1],
                     medium |-> clf.probabilities[2],
                     high |-> clf.probabilities[3]],
     recommendations |-> get_recommendations(RISK_LABELS[clf.prediction])]

\* app.py:156-165
SensorFields(temp_max, daily, data_source, use_sensor, d) ==
    [features_used |-> [temperature_max |-> temp_max,
                        temperature_min |-> Item0(daily, "temperature_2m_min"),
                        wind_speed_max |-> Item0(daily, "wind_speed_10m_max"),
                        wind_gusts_max |-> Item0(daily, "wind_gusts_10m_max"),
                        precipitation |-> Item0(daily, "precipitation_sum")],
     data_source |-> data_source,
     sensor_status |-> d.status,
     sensor_note |-> IF ~Truthy(use_sensor)
                     THEN "Hardware functionality not yet implemented" ELSE "None"]

\* f @@ g for two records
Merge(f, g) == [x \in DOMAIN f \cup DOMAIN g |-> IF x \in DOMAIN f THEN f[x] ELSE g[x]]

Error500(e, eff) == [code |-> 500, body |-> ErrorBody(e), effects |-> eff]

\* app.py:101-171 after the OPTIONS check: the response and what was called on the
\* way, for request body `body`, the provider answering `meteo`, the classifier `clf`
PredictWithSensorResult(body, meteo, clf, d) ==
    IF ModelMissing
    THEN [code |-> 500, body |-> ErrorBody(Msg("Model not loaded")), effects |-> NoEffects]
    ELSE IF ~body.json
    THEN Error500(Exc("Exception", "no JSON object"), NoEffects)
    ELSE
    LET data == body.data
        latitude == DictGet(data, "latitude", None)
        longitude == DictGet(data, "longitude", None)
        use_sensor == DictGet(data, "use_sensor", Bool(FALSE))
        fetched == [NoEffects EXCEPT !.forecast = TRUE, !.meteo = meteo]
    IN
    IF CoordsMissing(latitude, longitude)
    THEN [code |-> 400, body |-> ErrorBody(Msg("Latitude and longitude required")),
          effects |-> NoEffects]
    ELSE IF ~meteo.ok
    THEN Error500(Exc("RequestException", "forecast"), fetched)
    ELSE IF ~HasKey(meteo.json, "daily")
    THEN Error500(Exc("KeyError", "daily"), fetched)
    ELSE
    LET daily == meteo.json["daily"]
        sensor == UseSensorValue(use_sensor, d)
        reads == IF sensor THEN SubSeq(FeatureFields, 2, 5) ELSE FeatureFields
        bad == FirstRaising(daily, reads, 1)
    IN
    IF bad # 0
    THEN Error500(ItemError(daily, reads[bad]), fetched)
    ELSE
    LET temp_max == IF sensor THEN d.temperature ELSE Item0(daily, "temperature_2m_max")
        data_source == IF sensor THEN "sensor" ELSE "open-meteo"
        features == Features(temp_max, daily)
        called == [fetched EXCEPT !.classify = TRUE, !.features = features]
    IN
    IF ClassifyRaises(clf)
    THEN Error500(Exc("Exception", "classifier"), called)
    ELSE [code |-> 200,
          body |-> Merge(PredictionFields(clf),
                         SensorFields(temp_max, daily, data_source, use_sensor, d)),
          effects |-> called]

\* app.py:178-206 after the OPTIONS check
PredictResult(body, clf) ==
    IF ModelMissing
    THEN [code |-> 500, body |-> ErrorBody(Msg("Model not loaded")), effects |-> NoEffects]
    ELSE IF ~body.json
    THEN Error500(Exc("Exception", "no JSON object"), NoEffects)
    ELSE
    LET data == body.data
        bad == FirstRaising([f \in DOMAIN data |-> <<data[f]>>], FeatureFields, 1)
    IN
    IF bad # 0
    THEN Error500(Exc("KeyError", FeatureFields[bad]), NoEffects)
    ELSE
    LET features == DirectFeatures(data)
        called == [NoEffects EXCEPT !.classify = TRUE, !.features = features]
    IN
    IF ClassifyRaises(clf)
    THEN Error500(Exc("Exception", "classifier"), called)
    ELSE [code |-> 200, body |-> PredictionFields(clf), effects |-> called]

\* app.py:96-171
predict_with_sensor(method, body, meteo, clf) ==
    /\ Idle
    /\ req' = [op |-> "predict_with_sensor", method |-> method, body |-> body, at |-> now]
    /\ IF method = "OPTIONS"
       THEN /\ resp' = [code |-> 204, body |-> NoBody]
            /\ effects' = NoEffects
       ELSE LET r == PredictWithSensorResult(body, meteo, clf, latest_sensor_data)
            IN  /\ resp' = [code |-> r.code, body |-> r.body]
                /\ effects' = r.effects
    /\ UNCHANGED <<model, latest_sensor_data, now, last_ingest>>
    /\ UNCHANGED concVars

\* app.py:173-206
predict(method, body, clf) ==
    /\ Idle
    /\ req' = [op |-> "predict", method |-> method, body |-> body, at |-> now]
    /\ IF method = "OPTIONS"
       THEN /\ resp' = [code |-> 204, body |-> NoBody]
            /\ effects' = NoEffects
       ELSE LET r == PredictResult(body, clf)
            IN  /\ resp' = [code |-> r.code, body |-> r.body]
                /\ effects' = r.effects
    /\ UNCHANGED <<model, latest_sensor_data, now, last_ingest>>
    /\ UNCHANGED concVars

----------------------------------------------------------------------------
(* The requests callers send and what the outside world answers *)

Absent == [k |-> "absent", v |-> 0]
\* the JSON object with the fields of r that are not Absent
Object(r) == [x \in {f \in DOMAIN r : r[f] # Absent} |-> r[x]]

Methods == {"POST", "OPTIONS"}

IngestBodies ==
    {NotJson} \cup
    {Json(Object([temperature |-> x])) :
        x \in {Absent, None, Num(0), Num(42), NumStr(38), BadStr}}

Coordinates ==
    {<<Num(19), Num(73)>>, <<Absent, Num(73)>>, <<Num(19), Absent>>, <<Num(0), Num(73)>>}

CoordinateBodies ==
    {NotJson} \cup
    {Json(Object([latitude |-> c[1], longitude |-> c[2], use_sensor |-> u])) :
        c \in Coordinates, u \in {Absent, Bool(FALSE), Bool(TRUE)}}

\* one forecast day, as the provider sends it: each field a one-element list
Day(max, min, speed, gust, rain) ==
    [temperature_2m_max |-> <<Num(max)>>, temperature_2m_min |-> <<Num(min)>>,
     wind_speed_10m_max |-> <<Num(speed)>>, wind_gusts_10m_max |-> <<Num(gust)>>,
     precipitation_sum |-> <<Num(rain)>>]

Day1 == Day(35, 24, 10, 15, 0)
Day2 == Day(44, 30, 8, 21, 2)

Without(daily, field) == [f \in DOMAIN daily \ {field} |-> daily[f]]
Emptied(daily, field) == [daily EXCEPT ![field] = <<>>]

Unreachable == [ok |-> FALSE, json |-> EmptyDict]      \* no answer, a timeout, or no JSON
Payload(p) == [ok |-> TRUE, json |-> p]

MeteoAnswers ==
    {Unreachable, Payload([error |-> Bool(TRUE)]),
     Payload([daily |-> Day1]), Payload([daily |-> Day2]),
     Payload([daily |-> Emptied(Day1, "temperature_2m_min")])}
    \cup {Payload([daily |-> Without(Day1, f)]) : f \in FieldSet}

ClassifierAnswers ==
    {[raises |-> TRUE, prediction |-> 0, probabilities |-> <<0, 0, 0>>],
     [raises |-> FALSE, prediction |-> 0, probabilities |-> <<70, 20, 10>>],
     [raises |-> FALSE, prediction |-> 1, probabilities |-> <<20, 50, 30>>],
     [raises |-> FALSE, prediction |-> 2, probabilities |-> <<5, 15, 80>>]}

DirectValues ==
    [temperature_2m_max |-> Num(35), temperature_2m_min |-> Num(24),
     wind_speed_10m_max |-> Num(10), wind_gusts_10m_max |-> Num(15),
     precipitation_sum |-> Num(0)]

DirectBodies ==
    {NotJson} \cup {Json([f \in present |-> DirectValues[f]]) : present \in SUBSET FieldSet}

----------------------------------------------------------------------------
(* One request at a time *)

\* the wall clock advances between requests
Tick ==
    /\ Idle
    /\ now < MaxTime
    /\ now' = now + 1
    /\ UNCHANGED <<model, latest_sensor_data, req, resp, effects, last_ingest>>
    /\ UNCHANGED concVars

\* the response is sent; what was built for the request is discarded
send_response ==
    /\ ~Idle
    /\ req' = NoRequest
    /\ resp' = NoResponse
    /\ effects' = NoEffects
    /\ UNCHANGED <<model, latest_sensor_data, now, last_ingest>>
    /\ UNCHANGED concVars

NoThreads == [t \in {} |-> "idle"]

Init ==
    /\ model \in {Loaded, None}
    /\ latest_sensor_data = [temperature |-> None, timestamp |-> None, status |-> "disconnected"]
    /\ now = 0
    /\ req = NoRequest
    /\ resp = NoResponse
    /\ effects = NoEffects
    /\ last_ingest = NoIngest
    /\ pc = NoThreads
    /\ local = NoThreads
    /\ written_by = [temperature |-> 0, timestamp |-> 0, status |-> 0]
    /\ n_ingests = 0

Next ==
    \/ Tick
    \/ health_check
    \/ \E method \in Methods, body \in IngestBodies : receive_sensor_data(method, body)
    \/ get_sensor_data
    \/ \E method \in Methods, body \in CoordinateBodies, meteo \in MeteoAnswers,
          clf \in ClassifierAnswers : predict_with_sensor(method, body, meteo, clf)
    \/ \E method \in Methods, body \in DirectBodies, clf \in ClassifierAnswers :
          predict(method, body, clf)
    \/ send_response

Spec == Init /\ [][Next]_vars

----------------------------------------------------------------------------
(* Requests on worker threads.  The handlers take no lock, so the statements *)
(* of receive_sensor_data and get_sensor_data interleave; each action below  *)
(* is one statement (or a run of statements touching no shared field).       *)

Threads == 1..NumThreads
NoLocal == [temperature |-> None, id |-> 0, last_update |-> 0, ts_id |-> 0]

At(t, where) == pc[t] = where
Goto(t, where) == pc' = [pc EXCEPT ![t] = where]

\* what a returning thread hands back, with the writers of the fields it read
Return(t, op, r) ==
    /\ req' = [op |-> op, method |-> IF op = "read" THEN "GET" ELSE "POST",
               body |-> NotJson, at |-> now,
               thread |-> t, writers |-> written_by]
    /\ resp' = r
    /\ effects' = NoEffects

\* app.py:58-66: a request ended early returns at once
rsd_begin(t, body) ==
    /\ At(t, "idle")
    /\ n_ingests < MaxIngests
    /\ n_ingests' = n_ingests + 1
    /\ IF ~IngestCheck("POST", body).ok
       THEN /\ Return(t, "ingest", IngestCheck("POST", body).resp)
            /\ UNCHANGED <<pc, local>>
       ELSE /\ local' = [local EXCEPT ![t] = [NoLocal EXCEPT
                            !.temperature = IngestTemperature(body.data),
                            !.id = n_ingests']]
            /\ Goto(t, "rsd68")
            /\ UNCHANGED <<req, resp, effects>>
    /\ UNCHANGED <<model, latest_sensor_data, now, last_ingest, written_by>>

\* app.py:68
rsd_l68(t) ==
    /\ At(t, "rsd68")
    /\ latest_sensor_data' =
           [latest_sensor_data EXCEPT !.temperature = float(local[t].temperature)]
    /\ written_by' = [written_by EXCEPT !.temperature = local[t].id]
    /\ Goto(t, "rsd69")
    /\ UNCHANGED <<model, now, req, resp, effects, last_ingest, local, n_ingests>>

\* app.py:69
rsd_l69(t) ==
    /\ At(t, "rsd69")
    /\ latest_sensor_data' = [latest_sensor_data EXCEPT !.timestamp = isoformat(now)]
    /\ written_by' = [written_by EXCEPT !.timestamp = local[t].id]
    /\ last_ingest' = [T |-> local[t].temperature, at |-> now]
    /\ Goto(t, "rsd70")
    /\ UNCHANGED <<model, now, req, resp, effects, local, n_ingests>>

\* app.py:70
rsd_l70(t) ==
    /\ At(t, "rsd70")
    /\ latest_sensor_data' = [latest_sensor_data EXCEPT !.status = "connected"]
    /\ written_by' = [written_by EXCEPT !.status = local[t].id]
    /\ Goto(t, "rsd72")
    /\ UNCHANGED <<model, now, req, resp, effects, last_ingest, local, n_ingests>>

\* app.py:72-78
rsd_return(t) ==
    /\ At(t, "rsd72")
    /\ Return(t, "ingest", IngestAccepted(local[t].temperature, latest_sensor_data))
    /\ local' = [local EXCEPT ![t] = NoLocal]
    /\ Goto(t, "idle")
    /\ UNCHANGED <<model, latest_sensor_data, now, last_ingest, written_by, n_ingests>>

\* app.py:87
gsd_l87(t) ==
    /\ At(t, "idle")
    /\ IF Truthy(latest_sensor_data.timestamp) THEN Goto(t, "gsd88") ELSE Goto(t, "gsd94")
    /\ UNCHANGED <<model, latest_sensor_data, now, req, resp, effects, last_ingest,
                   local, written_by, n_ingests>>

\* app.py:88
gsd_l88(t) ==
    /\ At(t, "gsd88")
    /\ local' = [local EXCEPT ![t] = [NoLocal EXCEPT
                     !.last_update = fromisoformat(latest_sensor_data.timestamp),
                     !.ts_id = written_by.timestamp]]
    /\ Goto(t, "gsd89")
    /\ UNCHANGED <<model, latest_sensor_data, now, req, resp, effects, last_ingest,
                   written_by, n_ingests>>

\* app.py:89-91
gsd_l89(t) ==
    /\ At(t, "gsd89")
    /\ LET time_diff == now - local[t].last_update
       IN  IF IsStale(time_diff) THEN Goto(t, "gsd92") ELSE Goto(t, "gsd94")
    /\ UNCHANGED <<model, latest_sensor_data, now, req, resp, effects, last_ingest,
                   local, written_by, n_ingests>>

\* app.py:92
gsd_l92(t) ==
    /\ At(t, "gsd92")
    /\ latest_sensor_data' = MarkStale(latest_sensor_data)
    /\ written_by' = [written_by EXCEPT !.status = local[t].ts_id]
    /\ Goto(t, "gsd94")
    /\ UNCHANGED <<model, now, req, resp, effects, last_ingest, local, n_ingests>>

\* app.py:94: the record is serialized in one piece
gsd_l94(t) ==
    /\ At(t, "gsd94")
    /\ Return(t, "read", [code |-> 200, body |-> latest_sensor_data])
    /\ local' = [local EXCEPT ![t] = NoLocal]
    /\ Goto(t, "idle")
    /\ UNCHANGED <<model, latest_sensor_data, now, last_ingest, written_by, n_ingests>>

\* the wall clock advances at any moment, here in steps of more than half the
\* staleness threshold: one step leaves a reading fresh, two make it stale
ClockStep == STALE_SECONDS \div 2 + 1
ConcTick ==
    /\ now + ClockStep <= MaxTime
    /\ now' = now + ClockStep
    /\ UNCHANGED <<model, latest_sensor_data, req, resp, effects, last_ingest>>
    /\ UNCHANGED concVars

ConcInit ==
    /\ model = Loaded
    /\ latest_sensor_data = [temperature |-> None, timestamp |-> None, status |-> "disconnected"]
    /\ now = 0
    /\ req = NoRequest
    /\ resp = NoResponse
    /\ effects = NoEffects
    /\ last_ingest = NoIngest
    /\ pc = [t \in Threads |-> "idle"]
    /\ local = [t \in Threads |-> NoLocal]
    /\ written_by = [temperature |-> 0, timestamp |-> 0, status |-> 0]
    /\ n_ingests = 0

ConcNext ==
    \/ ConcTick
    \/ \E t \in Threads, body \in IngestBodies : rsd_begin(t, body)
    \/ \E t \in Threads : rsd_l68(t)
    \/ \E t \in Threads : rsd_l69(t)
    \/ \E t \in Threads : rsd_l70(t)
    \/ \E t \in Threads : rsd_return(t)
    \/ \E t \in Threads : gsd_l87(t)
    \/ \E t \in Threads : gsd_l88(t)
    \/ \E t \in Threads : gsd_l89(t)
    \/ \E t \in Threads : gsd_l92(t)
    \/ \E t \in Threads : gsd_l94(t)

ConcSpec == ConcInit /\ [][ConcNext]_vars

----------------------------------------------------------------------------
(* Properties of the one-request-at-a-time server *)

Inference == {"predict", "predict_with_sensor"}
\* the request answered in this state, or in the step to the next state
Answers(op) == req.op = op /\ req.method # "OPTIONS"
Handles(op) == Idle /\ req'.op = op /\ req'.method # "OPTIONS"

\* the feature order the classifier was trained on
TrainedOrder ==
    <<"temperature_2m_max", "temperature_2m_min", "wind_speed_10m_max",
      "wind_gusts_10m_max", "precipitation_sum">>

\* C1: a sensor read made up to 10 s after the last accepted ingest of T reports
\* connected and the temperature T (as a number); a read made later than that
\* reports disconnected, whatever was ingested and read before.
C1_ReadReportsLiveness ==
    (Answers("read") /\ last_ingest # NoIngest) =>
        IF req.at <= last_ingest.at + 10
        THEN /\ resp.body.status = "connected"
             /\ resp.body.temperature.k = "float"
             /\ resp.body.temperature.v = last_ingest.T.v
        ELSE resp.body.status = "disconnected"

\* a read exactly 10 s after the ingest of a number sent as a string
C1_Witness ==
    /\ Answers("read")
    /\ last_ingest.T = NumStr(38)
    /\ req.at = last_ingest.at + 10
    /\ resp.body.status = "connected"

\* C2: a successful coordinate-mode prediction reports the stored sensor
\* temperature as temperature_max with data_source "sensor" exactly when
\* use_sensor is true and a temperature is stored (however old, whatever its
\* status); otherwise the forecast's maximum with data_source "open-meteo".
C2_SensorSubstitution ==
    (Answers("predict_with_sensor") /\ resp.code = 200) =>
        LET use_sensor == DictGet(req.body.data, "use_sensor", Absent)
            used == resp.body.features_used.temperature_max
        IN  IF use_sensor = Bool(TRUE) /\ latest_sensor_data.temperature # None
            THEN /\ used = latest_sensor_data.temperature
                 /\ resp.body.data_source = "sensor"
            ELSE /\ used = effects.meteo.json.daily.temperature_2m_max[1]
                 /\ resp.body.data_source = "open-meteo"

\* a stale reading of 0.0 degrees, already marked disconnected, is substituted
C2_Witness ==
    /\ Answers("predict_with_sensor")
    /\ resp.code = 200
    /\ resp.body.data_source = "sensor"
    /\ resp.body.features_used.temperature_max = Float(0)
    /\ latest_sensor_data.status = "disconnected"
    /\ req.at - fromisoformat(latest_sensor_data.timestamp) > 10

\* C3: an ingest whose JSON object has no temperature field is answered with a
\* client error (4xx) and leaves temperature, timestamp and status as they were.
C3_MissingTemperatureRejected ==
    [][(Handles("ingest") /\ req'.body.json /\ ~HasKey(req'.body.data, "temperature")) =>
          /\ resp'.code \in 400..499
          /\ DOMAIN resp'.body = {"error"}
          /\ latest_sensor_data' = latest_sensor_data]_vars

\* such a request arrives while a live reading is stored
C3_Witness ==
    /\ Answers("ingest")
    /\ req.body.json
    /\ ~HasKey(req.body.data, "temperature")
    /\ resp.code = 400
    /\ latest_sensor_data.status = "connected"
    /\ latest_sensor_data.temperature = Float(42)

\* the sensor status a response reports
ReportedStatus ==
    IF req.op = "read" THEN resp.body.status ELSE resp.body.sensor_status

\* C5: whenever a response reports the sensor status (a sensor read, a health
\* check, a successful coordinate-mode prediction), it is connected if and only
\* if a reading is stored and its age at that moment is at most 10 s.
C5_StatusIffLive ==
    (\/ Answers("read")
     \/ Answers("health")
     \/ Answers("predict_with_sensor") /\ resp.code = 200) =>
        (ReportedStatus = "connected" <=>
            /\ latest_sensor_data.timestamp # None
            /\ req.at - fromisoformat(latest_sensor_data.timestamp) <= 10)

MissingFeatures(data) == {f \in FieldSet : ~HasKey(data, f)}

\* C6: a direct-feature prediction whose JSON object omits feature fields is
\* answered with a client error (4xx) that names every missing field, and the
\* classifier is not called.
C6_MissingFeaturesRejected ==
    (/\ Answers("predict")
     /\ model # None
     /\ req.body.json
     /\ MissingFeatures(req.body.data) # {}) =>
        /\ resp.code \in 400..499
        /\ \A f \in MissingFeatures(req.body.data) :
              \E i \in 1..Len(resp.body.error) : resp.body.error[i] = f
        /\ ~effects.classify

ResultFields == {"risk", "risk_code", "confidence", "recommendations"}

\* C7: a coordinate-mode prediction whose forecast payload lacks a required daily
\* field is answered with a 5xx error holding no prediction field; every answer
\* to an inference request is a full result or an error.
C7_IncompleteForecastFails ==
    /\ (/\ Answers("predict_with_sensor")
        /\ effects.forecast
        /\ effects.meteo.ok
        /\ HasKey(effects.meteo.json, "daily")
        /\ \E f \in FieldSet : ~HasKey(effects.meteo.json.daily, f)) =>
           /\ resp.code \in 500..599
           /\ DOMAIN resp.body = {"error"}
    /\ (\E op \in Inference : Answers(op)) =>
           \/ DOMAIN resp.body = {"error"}
           \/ ResultFields \subseteq DOMAIN resp.body

\* C8: with no model loaded, every inference request (either mode, any time, any
\* input) is answered 500 "Model not loaded"; the forecast provider and the
\* classifier are not called and the sensor record is not changed.
C8_ModelUnavailable ==
    [][(model = None /\ \E op \in Inference : Handles(op)) =>
          /\ resp'.code = 500
          /\ resp'.body = ErrorBody(Msg("Model not loaded"))
          /\ ~effects'.forecast
          /\ ~effects'.classify
          /\ latest_sensor_data' = latest_sensor_data]_vars

\* a well-formed coordinate request, some time after start, with a reading stored
C8_Witness ==
    /\ model = None
    /\ Answers("predict_with_sensor")
    /\ req.body.json
    /\ ~CoordsMissing(DictGet(req.body.data, "latitude", None),
                      DictGet(req.body.data, "longitude", None))
    /\ resp.code = 500
    /\ now > 0
    /\ latest_sensor_data.temperature # None

\* C9: the vector handed to the classifier is always [temperature max,
\* temperature min, wind speed max, wind gust max, precipitation sum]: the
\* request's five values in direct mode; in coordinate mode the reported
\* temperature_max followed by the forecast's other four values.
C9_FeatureOrder ==
    effects.classify =>
        /\ Len(effects.features) = 5
        /\ Answers("predict") =>
              \A i \in 1..5 : effects.features[i] = req.body.data[TrainedOrder[i]]
        /\ Answers("predict_with_sensor") =>
              /\ \A i \in 2..5 :
                    effects.features[i] = effects.meteo.json.daily[TrainedOrder[i]][1]
              /\ effects.features[1] =
                    IF /\ DictGet(req.body.data, "use_sensor", Absent) = Bool(TRUE)
                       /\ latest_sensor_data.temperature # None
                    THEN latest_sensor_data.temperature
                    ELSE effects.meteo.json.daily[TrainedOrder[1]][1]

\* a coordinate-mode vector with the sensor temperature substituted
C9_Witness ==
    /\ Answers("predict_with_sensor")
    /\ resp.code = 200
    /\ resp.body.data_source = "sensor"
    /\ effects.features = <<Float(42), Num(30), Num(8), Num(21), Num(2)>>

\* C10: temperature and timestamp change only in an ingest answered 200; a
\* sensor read changes nothing but the status, and that only from connected to
\* disconnected.
C10_OnlyIngestWrites ==
    [][/\ (\/ latest_sensor_data'.temperature # latest_sensor_data.temperature
           \/ latest_sensor_data'.timestamp # latest_sensor_data.timestamp) =>
              (Handles("ingest") /\ resp'.code = 200)
       /\ (Handles("read") /\ latest_sensor_data'.status # latest_sensor_data.status) =>
              /\ latest_sensor_data.status = "connected"
              /\ latest_sensor_data'.status = "disconnected"]_vars

\* a read, 11 s after the ingest, that found the reading stale and kept its value
C10_Witness ==
    /\ Answers("read")
    /\ resp.body.status = "disconnected"
    /\ resp.body.temperature = Float(42)
    /\ req.at = fromisoformat(resp.body.timestamp) + 11

----------------------------------------------------------------------------
(* Properties of the threaded server *)

\* C4: under any interleaving of ingests and reads, the record a sensor read
\* returns is one snapshot: its temperature and timestamp were written by the
\* same ingest, and its status was derived from that same timestamp.
C4_ReadIsOneSnapshot ==
    Answers("read") =>
        /\ req.writers.temperature = req.writers.timestamp
        /\ req.writers.status = req.writers.timestamp

====
